---- MODULE Spec2Model ----
(***************************************************************************)
(* Model of ios-xcode/LabelleGame/compiler_rt_stubs.c: the quad-precision  *)
(* (f128) runtime stubs, each of which forwards to the native operator on  *)
(* `long double` (typedef fp128).                                          *)
(*                                                                         *)
(* Floating-point data are modelled bit-faithfully on a miniature binary   *)
(* format: a datum is a record                                             *)
(*     [t: format tag, k: class, s: sign, m: significand, e: exponent]     *)
(* and a finite datum denotes (-1)^s * m * 2^e.  `float` has FloatPrec     *)
(* significand bits; `long double` has ExtraPrec more and a wider exponent *)
(* range, as every long double of the targets (binary64, x87 extended) has *)
(* with respect to binary32.  `int` / `unsigned int` have IntBits bits.    *)
(***************************************************************************)
EXTENDS Integers, FiniteSets, Sequences, TLC

VARIABLES pc, a, b, res

vars == <<pc, a, b, res>>

(* ---- sizes of the miniature machine ---- *)
FloatPrec == 2
ExtraPrec == 1
FloatEmax == 2
ExtraExp == 1
IntBits == 4

QuadPrec == FloatPrec + ExtraPrec
FloatEmin == 0 - FloatEmax
QuadEmax == FloatEmax + ExtraExp
QuadEmin == FloatEmin - QuadPrec - ExtraExp

INT_MIN == 0 - 2^(IntBits - 1)
INT_MAX == 2^(IntBits - 1) - 1
UINT_MAX == 2^IntBits - 1

(* ---- the data of a format ---- *)
Prec(t) == IF t = "sf" THEN FloatPrec ELSE QuadPrec
Emin(t) == IF t = "sf" THEN FloatEmin ELSE QuadEmin
Emax(t) == IF t = "sf" THEN FloatEmax ELSE QuadEmax

Fin(t, s, m, e) == [t |-> t, k |-> "fin", s |-> s, m |-> m, e |-> e]
Zero(t, s) == Fin(t, s, 0, Emin(t))
Inf(t, s) == [t |-> t, k |-> "inf", s |-> s, m |-> 0, e |-> 0]
\* a NaN; m = 1 for a quiet NaN, m = 0 for a signalling one
NaN(t, q) == [t |-> t, k |-> "nan", s |-> 0, m |-> q, e |-> 0]

\* canonical encodings: zero and subnormals at the least exponent, normals
\* with the leading significand bit set
Values(t) ==
    { Fin(t, s, m, e) : s \in 0..1, m \in 0..(2^Prec(t) - 1), e \in {Emin(t)} }
    \cup { Fin(t, s, m, e) : s \in 0..1, m \in 2^(Prec(t) - 1)..(2^Prec(t) - 1),
                             e \in Emin(t)..Emax(t) }
    \cup { Inf(t, s) : s \in 0..1 }
    \cup { NaN(t, q) : q \in 0..1 }

Quads == Values("tf")
Floats == Values("sf")

None == [t |-> "none", k |-> "none", s |-> 0, m |-> 0, e |-> 0]

IsNaN(x) == x.k = "nan"
IsInf(x) == x.k = "inf"
IsZero(x) == x.k = "fin" /\ x.m = 0

(* ---- native comparison ---- *)
\* magnitude of a finite datum in units of 2^QuadEmin
Scaled(x) == x.m * 2^(x.e - QuadEmin)
Huge == 2^(QuadPrec + QuadEmax - QuadEmin + 1)
Mag(x) == IF IsInf(x) THEN Huge ELSE Scaled(x)
Signed(x) == IF x.s = 1 THEN 0 - Mag(x) ELSE Mag(x)

\* the four-way outcome of a floating-point compare instruction
FCmp(x, y) ==
    IF IsNaN(x) \/ IsNaN(y) THEN "un"
    ELSE IF Signed(x) < Signed(y) THEN "lt"
    ELSE IF Signed(x) > Signed(y) THEN "gt"
    ELSE "eq"

\* the C relational and equality operators on floating operands
OpEq(x, y) == FCmp(x, y) = "eq"
OpNe(x, y) == FCmp(x, y) # "eq"
OpLt(x, y) == FCmp(x, y) = "lt"
OpGt(x, y) == FCmp(x, y) = "gt"
OpLe(x, y) == FCmp(x, y) \in {"lt", "eq"}
OpGe(x, y) == FCmp(x, y) \in {"gt", "eq"}

\* C's conversion of a truth value to int
Bool(p) == IF p THEN 1 ELSE 0

(* ---- native rounding, arithmetic and conversion ---- *)
\* floor of (n / d) * 2^k
Quot(n, d, k) ==
    IF k >= 0 THEN (n * 2^k) \div d ELSE n \div (d * 2^(0 - k))

\* whether (n / d) * 2^k is an integer
Exact(n, d, k) ==
    IF k >= 0 THEN (n * 2^k) % d = 0 ELSE n % (d * 2^(0 - k)) = 0

EHigh == QuadPrec + QuadEmax - QuadEmin + 1

\* exponent of the result of (n / d) * 2^x in format t, before rounding:
\* the least exponent for subnormal results, else the one that leaves
\* Prec(t) significand bits
ExpOf(t, n, d, x) ==
    CHOOSE e \in Emin(t)..EHigh :
        IF Quot(n, d, x - Emin(t)) < 2^Prec(t)
        THEN e = Emin(t)
        ELSE 2^(Prec(t) - 1) <= Quot(n, d, x - e) /\ Quot(n, d, x - e) < 2^Prec(t)

\* (-1)^s * (n / d) * 2^x delivered in format t, default rounding
\* (to nearest, ties to even); overflow delivers an infinity
Round(t, s, n, d, x) ==
    LET e0 == ExpOf(t, n, d, x)
        q2 == Quot(n, d, x - e0 + 1)
        m0 == q2 \div 2
        up == q2 % 2 = 1 /\ (~ Exact(n, d, x - e0 + 1) \/ m0 % 2 = 1)
        m1 == IF up THEN m0 + 1 ELSE m0
        m2 == IF m1 = 2^Prec(t) THEN 2^(Prec(t) - 1) ELSE m1
        e2 == IF m1 = 2^Prec(t) THEN e0 + 1 ELSE e0
    IN  IF e2 > Emax(t) THEN Inf(t, s) ELSE Fin(t, s, m2, e2)

\* the C operator / on long double operands, in the default floating-point
\* environment: exceptional operands deliver a value and nothing traps
OpDiv(x, y) ==
    IF IsNaN(x) \/ IsNaN(y) THEN NaN("tf", 1)
    ELSE IF (IsInf(x) /\ IsInf(y)) \/ (IsZero(x) /\ IsZero(y)) THEN NaN("tf", 1)
    ELSE LET s == (x.s + y.s) % 2
         IN  IF IsInf(x) \/ IsZero(y) THEN Inf("tf", s)
             ELSE IF IsInf(y) \/ IsZero(x) THEN Zero("tf", s)
             ELSE Round("tf", s, x.m, y.m, x.e - y.e)

\* the C cast between floating types: (fp128)x and (float)x
CastFloat(t, x) ==
    IF IsNaN(x) THEN NaN(t, 1)
    ELSE IF IsInf(x) THEN Inf(t, x.s)
    ELSE Round(t, x.s, x.m, 1, x.e)

\* variant: rounds toward minus infinity (floor) instead of toward zero
Integral_floor(x) ==
    IF x.s = 1
    THEN 0 - (Quot(x.m, 1, x.e) + (IF Exact(x.m, 1, x.e) THEN 0 ELSE 1))
    ELSE Quot(x.m, 1, x.e)

\* the integral part of a finite datum, fraction discarded
Integral(x) ==
    IF x.s = 1 THEN 0 - Quot(x.m, 1, x.e) ELSE Quot(x.m, 1, x.e)

\* the C casts (int)x and (unsigned int)x: the integral part when the
\* type can represent it, and undefined otherwise (any value of the type)
CastInt(x) ==
    IF x.k = "fin" /\ Integral(x) \in INT_MIN..INT_MAX
    THEN {Integral(x)}
    ELSE INT_MIN..INT_MAX

CastUInt(x) ==
    IF x.k = "fin" /\ Integral(x) \in 0..UINT_MAX
    THEN {Integral(x)}
    ELSE 0..UINT_MAX

(* ---- the arithmetic and conversion stubs ---- *)
\* variant: guards the zero divisor and returns zero
__divtf3_guarded(x, y) == IF IsZero(y) THEN Zero("tf", 0) ELSE OpDiv(x, y)

__divtf3(x, y) == OpDiv(x, y)

__extendsftf2(x) == CastFloat("tf", x)

\* variant: results below the least normal float are flushed to zero
__trunctfsf2_flush(x) ==
    IF x.k = "fin" /\ Scaled(x) < 2^(FloatPrec - 1 + FloatEmin - QuadEmin)
    THEN Zero("sf", x.s)
    ELSE CastFloat("sf", x)

__trunctfsf2(x) == CastFloat("sf", x)

__fixtfsi(x) == CastInt(x)

__fixunstfsi(x) == CastUInt(x)

(* ---- the comparison stubs ---- *)
\* variant: conventional polarity, 1 for equal
__eqtf2_plain(x, y) == Bool(OpEq(x, y))

__eqtf2(x, y) == Bool(~ OpEq(x, y))

\* variant: polarity of the equality test
__netf2_inverted(x, y) == Bool(~ OpNe(x, y))

__netf2(x, y) == Bool(OpNe(x, y))

\* variant: unordered operands fall into the "less" sentinel
__lttf2_unordless(x, y) ==
    IF OpGt(x, y) THEN 1
    ELSE IF OpEq(x, y) THEN 0
    ELSE -1

__lttf2(x, y) ==
    IF OpLt(x, y) THEN -1
    ELSE IF OpEq(x, y) THEN 0
    ELSE 1

\* variant: unordered operands fall into the "greater" sentinel
__gttf2_unordgreater(x, y) ==
    IF OpLt(x, y) THEN -1
    ELSE IF OpEq(x, y) THEN 0
    ELSE 1

__gttf2(x, y) ==
    IF OpGt(x, y) THEN 1
    ELSE IF OpEq(x, y) THEN 0
    ELSE -1

\* variant: strict comparison
__getf2_strict(x, y) == IF OpGt(x, y) THEN 0 ELSE -1

__getf2(x, y) == IF OpGe(x, y) THEN 0 ELSE -1

\* variant: strict comparison
__letf2_strict(x, y) == IF OpLt(x, y) THEN 0 ELSE 1

__letf2(x, y) == IF OpLe(x, y) THEN 0 ELSE 1

(* ---- calls ---- *)
Call2(name, r) ==
    /\ pc = "idle"
    /\ a.t = "tf" /\ b.t = "tf"
    /\ pc' = name
    /\ res' = r
    /\ UNCHANGED <<a, b>>

Call_eqtf2 == Call2("eqtf2", __eqtf2(a, b))
Call_netf2 == Call2("netf2", __netf2(a, b))
Call_lttf2 == Call2("lttf2", __lttf2(a, b))
Call_gttf2 == Call2("gttf2", __gttf2(a, b))
Call_getf2 == Call2("getf2", __getf2(a, b))
Call_letf2 == Call2("letf2", __letf2(a, b))

Call_divtf3 == Call2("divtf3", __divtf3(a, b))

Call_extendsftf2 ==
    /\ pc = "idle"
    /\ a.t = "sf"
    /\ pc' = "extendsftf2"
    /\ res' = __extendsftf2(a)
    /\ UNCHANGED <<a, b>>

\* narrowing, of a quad argument or of the quad just widened from a float;
\* b records the argument
Call_trunctfsf2 ==
    \E q \in (IF pc = "idle" /\ a.t = "tf" THEN {a}
              ELSE IF pc = "extendsftf2" THEN {res} ELSE {}) :
        /\ pc' = "trunctfsf2"
        /\ b' = q
        /\ res' = __trunctfsf2(q)
        /\ UNCHANGED a

Call_fixtfsi ==
    /\ pc = "idle"
    /\ a.t = "tf"
    /\ pc' = "fixtfsi"
    /\ res' \in __fixtfsi(a)
    /\ UNCHANGED <<a, b>>

Call_fixunstfsi ==
    /\ pc = "idle"
    /\ a.t = "tf"
    /\ pc' = "fixunstfsi"
    /\ res' \in __fixunstfsi(a)
    /\ UNCHANGED <<a, b>>

\* a caller holding two quad operands
Init ==
    /\ pc = "idle"
    /\ a \in Quads
    /\ b \in Quads
    /\ res = None

Next ==
    \/ Call_divtf3
    \/ Call_eqtf2
    \/ Call_netf2
    \/ Call_lttf2
    \/ Call_gttf2
    \/ Call_getf2
    \/ Call_letf2

Spec == Init /\ [][Next]_vars

\* a caller holding one operand to convert, a float or a quad
InitConv ==
    /\ pc = "idle"
    /\ a \in Floats \cup Quads
    /\ b = None
    /\ res = None

NextConv ==
    \/ Call_extendsftf2
    \/ Call_trunctfsf2
    \/ Call_fixtfsi
    \/ Call_fixunstfsi

SpecConv == InitConv /\ [][NextConv]_vars

(* ---- properties ---- *)
\* mathematical order of two data; no NaN is ordered with anything
Ordered(x, y) == ~ IsNaN(x) /\ ~ IsNaN(y)
Less(x, y) == Ordered(x, y) /\ Signed(x) < Signed(y)
Same(x, y) == Ordered(x, y) /\ Signed(x) = Signed(y)
More(x, y) == Ordered(x, y) /\ Signed(x) > Signed(y)

\* C1 as stated: the equality test returns 0 on (a, a) for every quad value
\* a, and nonzero on every pair with a != b
C1_EqAllValues ==
    pc = "eqtf2" =>
        /\ (a = b => res = 0)
        /\ (~ Same(a, b) => res # 0)

\* C1 amended: the equality test returns 0 on (a, a) for every a that is
\* not NaN and 1 on (a, a) for a NaN, and nonzero on every pair with a != b
C1_EqNonNaN ==
    pc = "eqtf2" =>
        /\ (a = b /\ ~ IsNaN(a) => res = 0)
        /\ (a = b /\ IsNaN(a) => res = 1)
        /\ (~ Same(a, b) => res # 0)

C1_Witness == pc = "eqtf2" /\ a = b /\ IsNaN(a) /\ res = 1

\* C2: the less-than compare returns -1 exactly when a < b, 0 exactly when
\* a == b and 1 in every other case, so 1 both for a > b and for unordered
C2_LtThreeWay ==
    pc = "lttf2" =>
        /\ (res = -1 <=> Less(a, b))
        /\ (res = 0 <=> Same(a, b))
        /\ (res = 1 <=> ~ Less(a, b) /\ ~ Same(a, b))
        /\ (More(a, b) \/ ~ Ordered(a, b) => res = 1)

C2_Witness == pc = "lttf2" /\ IsNaN(a) /\ res = 1

\* C3: the greater-than compare returns 1 exactly when a > b, 0 exactly when
\* a == b and -1 in every other case (a < b or unordered)
C3_GtThreeWay ==
    pc = "gttf2" =>
        /\ (res = 1 <=> More(a, b))
        /\ (res = 0 <=> Same(a, b))
        /\ (res = -1 <=> ~ More(a, b) /\ ~ Same(a, b))
        /\ (Less(a, b) \/ ~ Ordered(a, b) => res = -1)

C3_Witness == pc = "gttf2" /\ Less(a, b) /\ res = -1

\* C4: the greater-or-equal compare returns 0 if a >= b and -1 otherwise,
\* never anything else, and -1 both for a < b and for unordered operands
C4_GeTwoWay ==
    pc = "getf2" =>
        /\ res \in {0, -1}
        /\ (res = 0 <=> More(a, b) \/ Same(a, b))
        /\ (Less(a, b) => res = -1)
        /\ (~ Ordered(a, b) => res = -1)

C4_Witness == pc = "getf2" /\ ~ Ordered(a, b) /\ res = -1

\* C5: the less-or-equal compare returns 0 if a <= b and 1 otherwise, never
\* anything else; it is 0 whenever a == b and whenever a < b
C5_LeTwoWay ==
    pc = "letf2" =>
        /\ res \in {0, 1}
        /\ (res = 0 <=> Less(a, b) \/ Same(a, b))
        /\ (Same(a, b) => res = 0)
        /\ (Less(a, b) => res = 0)

C5_Witness == pc = "letf2" /\ Same(a, b) /\ a # b /\ res = 0

\* C6: the inequality test returns exactly 1 if the operands are not equal
\* and exactly 0 if they are equal, and nothing else
C6_NeBoolean ==
    pc = "netf2" =>
        /\ res \in {0, 1}
        /\ (res = 1 <=> ~ Same(a, b))
        /\ (res = 0 <=> Same(a, b))

C6_Witness == pc = "netf2" /\ More(a, b) /\ res = 1

\* C7: divide always returns a quad value; with a zero divisor it returns an
\* infinity, signed by the operands' signs, for a nonzero finite dividend,
\* and NaN for a zero dividend
C7_DivTotal ==
    pc = "divtf3" =>
        /\ res \in Quads
        /\ (IsZero(b) /\ a.k = "fin" /\ ~ IsZero(a) =>
                IsInf(res) /\ (res.s = 0 <=> a.s = b.s))
        /\ (IsZero(b) /\ IsZero(a) => IsNaN(res))

C7_Witness ==
    /\ pc = "divtf3"
    /\ IsZero(b) /\ b.s = 1
    /\ a.k = "fin" /\ ~ IsZero(a) /\ a.s = 0
    /\ res = Inf("tf", 1)

\* C8 as stated: narrowing the widened value compares equal to f, for every
\* float f
C8_RoundTripAllValues ==
    pc = "trunctfsf2" /\ a.t = "sf" => OpEq(res, a)

\* C8 amended: for every float f that is not NaN, narrowing the widened
\* value gives f back, the same datum; for a NaN it gives a NaN
C8_RoundTripNonNaN ==
    pc = "trunctfsf2" /\ a.t = "sf" =>
        IF IsNaN(a) THEN IsNaN(res) ELSE res = a /\ OpEq(res, a)

\* a subnormal float, which widening renormalises
C8_Witness ==
    /\ pc = "trunctfsf2" /\ a.t = "sf"
    /\ a.k = "fin" /\ a.m # 0 /\ a.m < 2^(FloatPrec - 1)
    /\ b # a /\ b.t = "tf"
    /\ res = a

\* C9: for a whose integral part is in the signed range, the signed
\* conversion returns the integer n with the sign of a and |n| the largest
\* integer not exceeding |a|; for non-negative a in the unsigned range the
\* unsigned conversion returns the same integer
C9_FixTruncates ==
    LET unit == 2^(0 - QuadEmin)
        abs(n) == IF n < 0 THEN 0 - n ELSE n
        TruncOf(n, x) ==
            /\ (x.s = 0 => n >= 0)
            /\ (x.s = 1 => n <= 0)
            /\ abs(n) * unit <= Scaled(x)
            /\ Scaled(x) < (abs(n) + 1) * unit
    IN  /\ (pc = "fixtfsi" /\ a.k = "fin" =>
                \A n \in INT_MIN..INT_MAX : TruncOf(n, a) => res = n)
        /\ (pc = "fixunstfsi" /\ a.k = "fin" /\ (a.s = 0 \/ IsZero(a)) =>
                \A n \in 0..UINT_MAX : TruncOf(n, a) => res = n)

\* a negative operand with a fraction, rounded up to a negative integer
C9_Witness ==
    /\ pc = "fixtfsi"
    /\ a.k = "fin" /\ a.s = 1
    /\ res < 0 /\ res > INT_MIN
    /\ Scaled(a) > (0 - res) * 2^(0 - QuadEmin)
    /\ Scaled(a) < (1 - res) * 2^(0 - QuadEmin)

\* C10: the three-way compares mirror each other under swapping operands,
\* __lttf2(a, b) = -__gttf2(b, a), and likewise from the other side
C10_Mirror ==
    /\ (pc = "lttf2" => res = 0 - __gttf2(b, a))
    /\ (pc = "gttf2" => res = 0 - __lttf2(b, a))

C10_Witness ==
    pc = "lttf2" /\ IsNaN(b) /\ ~ IsNaN(a) /\ res = 1 /\ __gttf2(b, a) = -1

====
